---- MODULE Spec2Model ----
(***************************************************************************)
(* Connection establishment of urllib3/connection.py: HTTPConnection,      *)
(* HTTPSConnection (exported as UnverifiedHTTPSConnection) and             *)
(* VerifiedHTTPSConnection.  Spec models one Connection object (PairSpec,   *)
(* further down, two of them sharing the class's option list); connect()   *)
(* is split at the calls that can raise (create_connection, setsockopt,    *)
(* _tunnel, the TLS wrap, the certificate checks), so that the position of *)
(* the running connect() is part of the state.                             *)
(*                                                                         *)
(* Python values are encoded as strings: "None", "False", "" (the empty    *)
(* string) and "Undefined" (an attribute that was never assigned).         *)
(* key_file, cert_file, ca_certs and ssl_version are only handed through   *)
(* to the TLS wrap, whose outcome is an input of the model; they are not   *)
(* state of the model.                                                     *)
(***************************************************************************)
EXTENDS Integers, Sequences, FiniteSets, TLC

\* ------------------------------------------------------------------ bounds
\* connect() calls made on the Connection
MaxAttempts == 2
\* length of a socket_options list supplied by the caller
MaxOpts == 2

\* ------------------------------------------------------------------ values
Variants == {"plain", "unverified", "verified"}
Hosts == {"h1", "h2"}
Timeouts == {"None", "5"}
\* The host the Connection is created for.  The names are interchangeable,
\* so it is fixed and the tunnel target, the assert_hostname override and
\* the certificate names vary against it.
ConnectionHost == "h1"
\* _tunnel_host: never set, or set by set_tunnel
TunnelHosts == {"None"} \cup Hosts
\* (level, name, value) triples
TCP_NODELAY_1 == <<"IPPROTO_TCP", "TCP_NODELAY", 1>>
SO_KEEPALIVE_1 == <<"SOL_SOCKET", "SO_KEEPALIVE", 1>>
OptTriples == {TCP_NODELAY_1, SO_KEEPALIVE_1}
OptLists == UNION {[1..n -> OptTriples] : n \in 0..MaxOpts}

CERT_NONE == "CERT_NONE"
CERT_REQUIRED == "CERT_REQUIRED"

\* peer certificates: the names they are valid for and their digest
NoCert == [names |-> {}, fp |-> "none"]
Certs == {[names |-> {"h1"}, fp |-> "F1"], [names |-> {"h2"}, fp |-> "F2"]}

NoSock == [id |-> 0, tls |-> FALSE]
NoError == [type |-> "none", host |-> "", timeout |-> ""]

default_socket_options == <<TCP_NODELAY_1>>

\* Python truthiness of the encoded values
Truthy(x) == x \notin {"None", "", "False", "Undefined"}

VARIABLES
    variant,            \* which class the Connection is an instance of
    host,               \* self.host
    timeout,            \* self.timeout
    tunnel_host,        \* self._tunnel_host
    kw_socket_options,  \* the socket_options keyword given to __init__
    socket_options,     \* self.socket_options
    cert_reqs,          \* self.cert_reqs
    assert_hostname,    \* self.assert_hostname
    assert_fingerprint, \* self.assert_fingerprint
    auto_open,          \* self.auto_open
    sock,               \* self.sock
    pc,                 \* position of connect()
    attempts,           \* connect() calls so far
    opened,             \* sockets create_connection returned
    applied,            \* the setsockopt calls made on conn, in order
    conn,               \* local conn of the running/last connect()
    hostname,           \* local hostname of VerifiedHTTPSConnection.connect
    resolved_cert_reqs, \* local resolved_cert_reqs
    steps,              \* steps the running/last connect() executed
    dialed_host,        \* host create_connection was called with
    tunnel_sock,        \* self.sock when _tunnel() was called
    server_hostname,    \* server_hostname handed to ssl_wrap_socket
    peer,               \* certificate the peer presented in the handshake
    checks,             \* certificate checks made: <<kind, name or digest>>
    error,              \* exception connect() raised
    conns,              \* two further Connection objects, used side by side
    class_default       \* the list object HTTPConnection.default_socket_options

cfgVars == <<variant, timeout, tunnel_host, kw_socket_options, socket_options>>
certVars == <<cert_reqs, assert_hostname, assert_fingerprint>>
objVars == <<host, auto_open, sock>>
locVars == <<conn, hostname, resolved_cert_reqs>>
histVars == <<steps, dialed_host, tunnel_sock, server_hostname, peer, checks>>
pairVars == <<conns, class_default>>
vars == <<cfgVars, certVars, objVars, locVars, histVars, pc, attempts, opened,
          applied, error, pairVars>>

\* positions between two calls: nothing recorded, or how the last connect() ended
Rest == {"Idle", "Ready", "Failed"}

\* a constructor that takes an explicit None for "not given"
InitSocketOptions_NoneIsDefault(kw) ==
    IF kw.kind \in {"absent", "none"}
    THEN [isNone |-> FALSE, list |-> default_socket_options]
    ELSE [isNone |-> FALSE, list |-> kw.list]

\* HTTPConnection.__init__, line 96: socket_options defaults to
\* default_socket_options
InitSocketOptions(kw) ==
    IF kw.kind = "absent" THEN [isNone |-> FALSE, list |-> default_socket_options]
    ELSE IF kw.kind = "none" THEN [isNone |-> TRUE, list |-> <<>>]
    ELSE [isNone |-> FALSE, list |-> kw.list]

KwSocketOptions ==
    {[kind |-> "absent", list |-> <<>>], [kind |-> "none", list |-> <<>>]}
    \cup {[kind |-> "list", list |-> l] : l \in OptLists}

Init ==
    /\ variant \in Variants
    /\ host = ConnectionHost
    /\ timeout \in Timeouts
    /\ tunnel_host \in TunnelHosts
    /\ kw_socket_options \in KwSocketOptions
    /\ socket_options = InitSocketOptions(kw_socket_options)
    /\ cert_reqs = "None"
    /\ assert_hostname = "Undefined"
    /\ assert_fingerprint = "Undefined"
    /\ auto_open = 1
    /\ sock = NoSock
    /\ pc = "Idle"
    /\ attempts = 0
    /\ opened = {}
    /\ applied = <<>>
    /\ conn = 0
    /\ hostname = "Undefined"
    /\ resolved_cert_reqs = "Undefined"
    /\ steps = <<>>
    /\ dialed_host = ""
    /\ tunnel_sock = NoSock
    /\ server_hostname = "Undefined"
    /\ peer = NoCert
    /\ checks = <<>>
    /\ error = NoError
    /\ conns = <<>>
    /\ class_default = default_socket_options

Raw(id) == [id |-> id, tls |-> FALSE]
Tls(id) == [id |-> id, tls |-> TRUE]
Err(t) == [type |-> t, host |-> "", timeout |-> ""]

\* the socket.timeout left to propagate as it is
ConnectTimeoutError_Generic == Err("socket.timeout")

\* _new_conn, lines 114-117: ConnectTimeoutError with self.host and
\* self.timeout in its message
ConnectTimeoutError ==
    [type |-> "ConnectTimeoutError", host |-> host, timeout |-> timeout]

\* _new_conn, lines 106-117: socket.create_connection((host, port), timeout).
\* A new connect() starts here; what the previous connect() recorded is reset.
NewConn ==
    /\ pc \in Rest
    /\ attempts < MaxAttempts
    /\ attempts' = attempts + 1
    /\ steps' = <<"dial">>
    /\ dialed_host' = host
    /\ applied' = <<>>
    /\ hostname' = "Undefined"
    /\ resolved_cert_reqs' = "Undefined"
    /\ tunnel_sock' = NoSock
    /\ server_hostname' = "Undefined"
    /\ peer' = NoCert
    /\ checks' = <<>>
    /\ \E r \in {"ok", "timeout", "refused"} :
        IF r = "ok"
        THEN /\ conn' = Cardinality(opened) + 1
             /\ opened' = opened \cup {conn'}
             /\ pc' = "in_new_conn"
             /\ error' = NoError
        ELSE /\ conn' = 0
             /\ opened' = opened
             /\ pc' = "Failed"
             /\ error' = IF r = "timeout" THEN ConnectTimeoutError
                         ELSE Err("socket.error")
    /\ UNCHANGED <<pairVars, cfgVars, certVars, objVars>>

\* _set_options_on, lines 135-141: the setsockopt calls made on the socket
\* when the failAt-th call raises (failAt = 0: none raises)
OptionsSet(opts, failAt) ==
    IF opts.isNone THEN <<>>
    ELSE IF failAt = 0 THEN opts.list
    ELSE SubSeq(opts.list, 1, failAt - 1)

\* _new_conn, lines 119-122: self._set_options_on(conn); return conn
SetOptionsOn ==
    /\ pc = "in_new_conn"
    /\ \E failAt \in 0..(IF socket_options.isNone THEN 0 ELSE Len(socket_options.list)) :
        /\ applied' = OptionsSet(socket_options, failAt)
        /\ IF failAt = 0
           THEN pc' = "after_new_conn" /\ error' = error
           ELSE pc' = "Failed" /\ error' = Err("socket.error")
    /\ steps' = Append(steps, "options")
    /\ UNCHANGED <<pairVars, cfgVars, certVars, objVars, locVars, attempts, opened,
                   dialed_host, tunnel_sock, server_hostname, peer, checks>>

\* hasattr(self, '_tunnel_host') for the truth test of its value
HasTunnel_Hasattr == tunnel_host # "Undefined"

\* lines 129 and 198: getattr(self, '_tunnel_host', None)
HasTunnel == Truthy(tunnel_host)

\* the flag cleared before the negotiation instead of after it
AutoOpenAfterTunnel_Always(ok) == 0

\* lines 131-133 and 205-207: auto_open after self._tunnel() returned (ok)
\* or raised
AutoOpenAfterTunnel(ok) == IF ok THEN 0 ELSE auto_open

\* lines 125-133 and 202-207: self.sock = conn; self._tunnel();
\* self.auto_open = 0.  _tunnel() negotiates on self.sock and, when it
\* returns, has set self.host to the tunnel target (comment at line 203).
Tunnel(ok) ==
    /\ sock' = Raw(conn)
    /\ tunnel_sock' = sock'
    /\ steps' = Append(steps, "tunnel")
    /\ auto_open' = AutoOpenAfterTunnel(ok)
    /\ host' = IF ok THEN tunnel_host ELSE host
    /\ error' = IF ok THEN error ELSE Err("TunnelError")

\* _prepare_conn entered once more after it returned
AfterPrepare_Again == "after_new_conn"

\* where connect() of the plain and of the unverified class goes on after
\* _prepare_conn: line 145 returns, line 167 wraps
AfterPrepare == IF variant = "plain" THEN "Ready" ELSE "after_prepare"

\* HTTPConnection.connect / HTTPSConnection.connect, lines 145 and 166:
\* self._prepare_conn(conn), lines 124-133
PrepareConn ==
    /\ pc = "after_new_conn"
    /\ variant # "verified"
    /\ IF HasTunnel
       THEN \E ok \in BOOLEAN :
              /\ Tunnel(ok)
              /\ pc' = IF ok THEN AfterPrepare ELSE "Failed"
       ELSE /\ sock' = Raw(conn)
            /\ pc' = AfterPrepare
            /\ UNCHANGED <<tunnel_sock, steps, auto_open, host, error>>
    /\ UNCHANGED <<pairVars, cfgVars, certVars, locVars, attempts, opened, applied,
                   dialed_host, server_hostname, peer, checks>>

\* HTTPSConnection.connect, line 167:
\* self.sock = ssl.wrap_socket(conn, self.key_file, self.cert_file)
UnverifiedWrap ==
    /\ pc = "after_prepare"
    /\ steps' = Append(steps, "wrap")
    /\ \E ok \in BOOLEAN, p \in Certs \cup {NoCert} :
        IF ok
        THEN /\ sock' = Tls(conn)
             /\ peer' = p
             /\ pc' = "Ready"
             /\ error' = error
        ELSE /\ pc' = "Failed"
             /\ error' = Err("SSLError")
             /\ UNCHANGED <<sock, peer>>
    /\ UNCHANGED <<pairVars, cfgVars, certVars, locVars, host, auto_open, attempts, opened,
                   applied, dialed_host, tunnel_sock, server_hostname, checks>>

\* values set_cert is called with
CertReqsArgs == {"None", CERT_NONE, CERT_REQUIRED}
AssertHostnameArgs == {"None", "False", "", "h2"}
AssertFingerprintArgs == {"None", "", "F1"}

\* VerifiedHTTPSConnection.set_cert, lines 179-188.  What the last
\* connect() recorded was recorded under the previous settings and is
\* dropped.
set_cert ==
    /\ variant = "verified"
    /\ pc \in Rest
    /\ \E cr \in CertReqsArgs, ah \in AssertHostnameArgs,
          af \in AssertFingerprintArgs :
        /\ cert_reqs' = cr
        /\ assert_hostname' = ah
        /\ assert_fingerprint' = af
    /\ pc' = "Idle"
    /\ steps' = <<>>
    /\ dialed_host' = ""
    /\ applied' = <<>>
    /\ conn' = 0
    /\ hostname' = "Undefined"
    /\ resolved_cert_reqs' = "Undefined"
    /\ tunnel_sock' = NoSock
    /\ server_hostname' = "Undefined"
    /\ peer' = NoCert
    /\ checks' = <<>>
    /\ error' = NoError
    /\ UNCHANGED <<pairVars, cfgVars, objVars, attempts, opened>>

\* util.resolve_cert_reqs (imported at line 40): the explicit value, or the
\* default of the verified class
resolve_cert_reqs(candidate) ==
    IF candidate = "None" THEN CERT_REQUIRED ELSE candidate

\* the attribute used as it is
ResolvedCertReqs_Raw == cert_reqs

\* line 194: resolved_cert_reqs = resolve_cert_reqs(self.cert_reqs)
ResolvedCertReqs == resolve_cert_reqs(cert_reqs)

\* the hostname left at self.host, as read at line 197
WrapHostname_NoOverride == host

\* lines 197-210: the local hostname when the wrap is reached
WrapHostname == IF HasTunnel THEN tunnel_host ELSE host

\* VerifiedHTTPSConnection.connect, lines 194-210
VerifiedTunnel ==
    /\ pc = "after_new_conn"
    /\ variant = "verified"
    /\ resolved_cert_reqs' = ResolvedCertReqs
    /\ IF HasTunnel
       THEN \E ok \in BOOLEAN :
              /\ Tunnel(ok)
              /\ hostname' = IF ok THEN WrapHostname ELSE host
              /\ pc' = IF ok THEN "before_wrap" ELSE "Failed"
       ELSE /\ hostname' = WrapHostname
            /\ pc' = "before_wrap"
            /\ UNCHANGED <<sock, tunnel_sock, steps, auto_open, host, error>>
    /\ UNCHANGED <<pairVars, cfgVars, certVars, conn, attempts, opened, applied,
                   dialed_host, server_hostname, peer, checks>>

\* util.ssl_wrap_socket (imported at line 42): the handshake succeeds only
\* if the transport and the chain validation do (ok) and, unless the
\* verification mode is none, the peer presented a certificate
HandshakeOk(rcr, p, ok) == ok /\ (rcr = CERT_NONE \/ p # NoCert)

\* VerifiedHTTPSConnection.connect, lines 214-218
VerifiedWrap ==
    /\ pc = "before_wrap"
    /\ steps' = Append(steps, "wrap")
    /\ server_hostname' = hostname
    /\ \E ok \in BOOLEAN, p \in Certs \cup {NoCert} :
        IF HandshakeOk(resolved_cert_reqs, p, ok)
        THEN /\ sock' = Tls(conn)
             /\ peer' = p
             /\ pc' = "after_wrap"
             /\ error' = error
        ELSE /\ pc' = "Failed"
             /\ error' = Err("SSLError")
             /\ UNCHANGED <<sock, peer>>
    /\ UNCHANGED <<pairVars, cfgVars, certVars, locVars, host, auto_open, attempts, opened,
                   applied, dialed_host, tunnel_sock, checks>>

\* util.assert_fingerprint (imported at line 39): the digest of the peer
\* certificate equals the expected one
FingerprintOk(cert, expected) == cert.fp = expected

\* ssl.match_hostname (imported at line 36): the name is one the
\* certificate is valid for
HostnameOk(cert, name) == name \in cert.names

\* the hostname match tried first, the fingerprint only without it
WhichCheck_HostnameFirst(rcr, af, ah) ==
    IF rcr = CERT_NONE THEN "skip"
    ELSE IF af = "Undefined" \/ ah = "Undefined" THEN "AttributeError"
    ELSE IF ah # "False" THEN "hostname"
    ELSE IF Truthy(af) THEN "fingerprint"
    ELSE "skip"

\* "elif self.assert_hostname:" for "elif self.assert_hostname is not False:"
WhichCheck_TruthyHostname(rcr, af, ah) ==
    IF rcr = CERT_NONE THEN "skip"
    ELSE IF af = "Undefined" THEN "AttributeError"
    ELSE IF Truthy(af) THEN "fingerprint"
    ELSE IF ah = "Undefined" THEN "AttributeError"
    ELSE IF Truthy(ah) THEN "hostname"
    ELSE "skip"

\* the test of the verification mode at line 220 left out
WhichCheck_IgnoreMode(rcr, af, ah) ==
    IF af = "Undefined" THEN "AttributeError"
    ELSE IF Truthy(af) THEN "fingerprint"
    ELSE IF ah = "Undefined" THEN "AttributeError"
    ELSE IF ah # "False" THEN "hostname"
    ELSE "skip"

\* "else:" for "elif self.assert_hostname is not False:"
WhichCheck_NoOptOut(rcr, af, ah) ==
    IF rcr = CERT_NONE THEN "skip"
    ELSE IF af = "Undefined" THEN "AttributeError"
    ELSE IF Truthy(af) THEN "fingerprint"
    ELSE IF ah = "Undefined" THEN "AttributeError"
    ELSE "hostname"

\* lines 220-226: which branch of the verification the attribute values
\* select
WhichCheck(rcr, af, ah) ==
    IF rcr = CERT_NONE THEN "skip"
    ELSE IF af = "Undefined" THEN "AttributeError"
    ELSE IF Truthy(af) THEN "fingerprint"
    ELSE IF ah = "Undefined" THEN "AttributeError"
    ELSE IF ah # "False" THEN "hostname"
    ELSE "skip"

\* the override left out of the match
MatchName_NoOverride == hostname

\* line 226: self.assert_hostname or hostname
MatchName == IF Truthy(assert_hostname) THEN assert_hostname ELSE hostname

\* VerifiedHTTPSConnection.connect, lines 220-226
VerifiedCheck ==
    /\ pc = "after_wrap"
    /\ LET which == WhichCheck(resolved_cert_reqs, assert_fingerprint,
                               assert_hostname)
       IN  CASE which = "skip" ->
                  /\ pc' = "Ready"
                  /\ UNCHANGED <<steps, checks, error>>
             [] which = "AttributeError" ->
                  /\ pc' = "Failed"
                  /\ error' = Err("AttributeError")
                  /\ UNCHANGED <<steps, checks>>
             [] which = "fingerprint" ->
                  /\ steps' = Append(steps, "check")
                  /\ checks' = Append(checks, <<"fingerprint", assert_fingerprint>>)
                  /\ IF FingerprintOk(peer, assert_fingerprint)
                     THEN pc' = "Ready" /\ error' = error
                     ELSE pc' = "Failed" /\ error' = Err("FingerprintMismatchError")
             [] which = "hostname" ->
                  /\ steps' = Append(steps, "check")
                  /\ checks' = Append(checks, <<"hostname", MatchName>>)
                  /\ IF HostnameOk(peer, MatchName)
                     THEN pc' = "Ready" /\ error' = error
                     ELSE pc' = "Failed" /\ error' = Err("HostnameMismatchError")
    /\ UNCHANGED <<pairVars, cfgVars, certVars, objVars, locVars, attempts, opened,
                   applied, dialed_host, tunnel_sock, server_hostname, peer>>

Next ==
    \/ NewConn
    \/ SetOptionsOn
    \/ PrepareConn
    \/ UnverifiedWrap
    \/ set_cert
    \/ VerifiedTunnel
    \/ VerifiedWrap
    \/ VerifiedCheck

Spec == Init /\ [][Next]_vars

\* ------------------------------------------------------------ properties
Ran(step) == \E i \in 1..Len(steps) : steps[i] = step
Before(a, b) ==
    \E i, j \in 1..Len(steps) : i < j /\ steps[i] = a /\ steps[j] = b
Ended == pc \in {"Ready", "Failed"}
\* dial, tunnel and TLS handshake of the running/last connect() succeeded
PastWrap == conn # 0 /\ sock = Tls(conn)
\* the name the certificate has to be valid for: the tunnel target when
\* tunneled, the host the socket was dialed to otherwise
EffectiveHostname == IF Truthy(tunnel_host) THEN tunnel_host ELSE dialed_host

\* C1: in the verified variant with a tunnel target, every connect() that
\* gets to the TLS wrap has negotiated the tunnel before it, on the raw
\* socket of this attempt, and hands the tunnel target's host to the wrap as
\* server_hostname: not the proxy's host, the host of the Connection.
C1_TunnelBeforeWrap ==
    (variant = "verified" /\ Truthy(tunnel_host) /\ Ran("wrap")) =>
        /\ Before("tunnel", "wrap")
        /\ tunnel_sock = Raw(conn)
        /\ server_hostname = tunnel_host
        /\ (tunnel_host # ConnectionHost => server_hostname # ConnectionHost)

C1_Witness ==
    /\ variant = "verified"
    /\ tunnel_host = "h2"
    /\ dialed_host = "h1"
    /\ pc = "Ready"
    /\ steps = <<"dial", "options", "tunnel", "wrap", "check">>
    /\ server_hostname = "h2"

\* a step of connect() in which _tunnel() returned
TunnelSucceeds == steps' = Append(steps, "tunnel") /\ pc' # "Failed"

\* C2: auto_open is 1 on a new Connection; a step in which a tunnel
\* negotiation succeeds leaves it 0, and every other step (no tunnel, a
\* failed negotiation, any other part of any connect()) leaves it as it
\* was, so that it never goes from 0 back to 1.
C2_Reusable ==
    /\ [](attempts = 0 => auto_open = 1)
    /\ [][/\ TunnelSucceeds => auto_open' = 0
          /\ ~TunnelSucceeds => auto_open' = auto_open
          /\ auto_open = 0 => auto_open' = 0]_vars

C2_Witness ==
    /\ attempts = 2
    /\ auto_open = 0
    /\ pc = "Failed"
    /\ error.type = "TunnelError"

\* C3 as stated: in the verified variant with an expected fingerprint set,
\* a connect() whose dial, tunnel and handshake succeeded ends Ready if and
\* only if the digest of the peer certificate equals it, whatever the rest
\* of the configuration.
C3_AnyMode ==
    (variant = "verified" /\ Truthy(assert_fingerprint) /\ PastWrap /\ Ended) =>
        (pc = "Ready" <=> peer.fp = assert_fingerprint)

\* C3, amended: the same, when the resolved verification mode is not none.
C3_Fingerprint ==
    (/\ variant = "verified"
     /\ Truthy(assert_fingerprint)
     /\ resolved_cert_reqs # CERT_NONE
     /\ PastWrap
     /\ Ended) =>
        /\ pc = "Ready" <=> peer.fp = assert_fingerprint
        /\ pc = "Failed" => error.type = "FingerprintMismatchError"

\* the digest matches although no name of the certificate does
C3_Witness ==
    /\ variant = "verified"
    /\ resolved_cert_reqs = CERT_REQUIRED
    /\ assert_fingerprint = "F1"
    /\ assert_hostname = "None"
    /\ PastWrap
    /\ pc = "Ready"
    /\ peer.fp = "F1"
    /\ EffectiveHostname \notin peer.names

\* set_cert left no fingerprint and did not disable the hostname assertion
HostnameAsserted ==
    /\ assert_fingerprint \in {"None", ""}
    /\ assert_hostname \notin {"False", "Undefined"}

\* C4 as stated: in the verified variant with mode other than none, no
\* fingerprint and the hostname assertion not disabled, a connect() whose
\* dial, tunnel and handshake succeeded ends Ready if and only if the
\* effective hostname matches the peer certificate, and ends Failed with a
\* hostname mismatch otherwise.
C4_EffectiveHostname ==
    (/\ variant = "verified"
     /\ resolved_cert_reqs # CERT_NONE
     /\ HostnameAsserted
     /\ PastWrap
     /\ Ended) =>
        /\ pc = "Ready" <=> EffectiveHostname \in peer.names
        /\ pc = "Failed" => error.type = "HostnameMismatchError"

\* C4, amended: the name that has to match is the assert_hostname override
\* when set_cert gave a non-empty one, and the effective hostname when it
\* gave None or the empty string.
C4_Hostname ==
    (/\ variant = "verified"
     /\ resolved_cert_reqs # CERT_NONE
     /\ HostnameAsserted
     /\ PastWrap
     /\ Ended) =>
        LET name == IF assert_hostname \in {"None", ""}
                    THEN EffectiveHostname ELSE assert_hostname
        IN  /\ pc = "Ready" <=> name \in peer.names
            /\ pc = "Failed" => error.type = "HostnameMismatchError"

\* tunneled: the certificate is valid for the proxy and not for the target
C4_Witness ==
    /\ variant = "verified"
    /\ resolved_cert_reqs = CERT_REQUIRED
    /\ assert_fingerprint = "None"
    /\ assert_hostname = "None"
    /\ tunnel_host = "h2"
    /\ dialed_host = "h1"
    /\ PastWrap
    /\ peer.names = {"h1"}
    /\ pc = "Failed"
    /\ error.type = "HostnameMismatchError"

C6_VerifierOnlyWhenVerifying ==
    /\ checks # <<>> =>
          /\ variant = "verified"
          /\ resolved_cert_reqs \notin {CERT_NONE, "Undefined"}
    /\ Len(checks) <= 1
    /\ Truthy(assert_fingerprint) =>
          \A i \in 1..Len(checks) : checks[i][1] # "hostname"

\* mode none with a fingerprint set that the peer does not have
C6_Witness ==
    /\ variant = "verified"
    /\ resolved_cert_reqs = CERT_NONE
    /\ assert_fingerprint = "F1"
    /\ PastWrap
    /\ peer.fp = "F2"
    /\ pc = "Ready"
    /\ checks = <<>>

\* C7: in the verified variant with mode required, assert_hostname False
\* and no fingerprint, a connect() whose dial, tunnel and handshake
\* succeeded ends Ready, also when no name of the certificate matches; with
\* assert_hostname None (or never assigned) it does not end Ready on a
\* mismatch.
C7_OptOut ==
    (/\ variant = "verified"
     /\ resolved_cert_reqs = CERT_REQUIRED
     /\ ~Truthy(assert_fingerprint)
     /\ PastWrap
     /\ Ended) =>
        /\ assert_hostname = "False" => pc = "Ready"
        /\ (/\ assert_hostname \in {"None", "Undefined"}
            /\ EffectiveHostname \notin peer.names) => pc = "Failed"

C7_Witness ==
    /\ variant = "verified"
    /\ resolved_cert_reqs = CERT_REQUIRED
    /\ assert_hostname = "False"
    /\ assert_fingerprint = "None"
    /\ PastWrap
    /\ EffectiveHostname \notin peer.names
    /\ pc = "Ready"

\* C8: when a connect() fails after its dial succeeded (setting the socket
\* options, the tunnel negotiation, the handshake or the verification
\* raised), the socket it opened is still open and is the one self.sock
\* refers to, so that the caller can close it.
C8_FailedSocketReachable ==
    (pc = "Failed" /\ conn # 0) => (conn \in opened /\ sock.id = conn)

\* C9: when the fingerprint comparison or the hostname match fails, the
\* connect() has failed and self.sock is not an established TLS stream.
C9_NoStreamAfterMismatch ==
    error.type \in {"FingerprintMismatchError", "HostnameMismatchError"} =>
        (pc = "Failed" /\ ~sock.tls)

\* the setsockopt calls the keyword given to the constructor asks for
ExpectedOptions ==
    IF kw_socket_options.kind = "none" THEN <<>>
    ELSE IF kw_socket_options.kind = "absent" THEN <<TCP_NODELAY_1>>
    ELSE kw_socket_options.list
\* the running/last connect() failed in _set_options_on
OptionsFailed == pc = "Failed" /\ steps = <<"dial", "options">>
IsPrefix(a, b) == Len(a) <= Len(b) /\ a = SubSeq(b, 1, Len(a))

Count(step) == Cardinality({i \in 1..Len(steps) : steps[i] = step})
\* a step in which create_connection raises
DialFails == steps' = <<"dial">> /\ pc' = "Failed"

\* C11: a dial that times out ends the connect() with ConnectTimeoutError
\* carrying self.host and self.timeout; a connect() dials once; a connect()
\* whose dial failed has set no socket option, negotiated no tunnel and
\* wrapped nothing, and the failing dial leaves self.sock, auto_open and the
\* set of open sockets as they were.
C11_DialTimeout ==
    /\ [](/\ Count("dial") <= 1
          /\ (pc \in {"in_new_conn", "Failed"} /\ steps = <<"dial">>) =>
                (applied = <<>> /\ tunnel_sock = NoSock
                 /\ server_hostname = "Undefined")
          /\ error.type \in {"ConnectTimeoutError", "socket.timeout"} =>
                /\ error.type = "ConnectTimeoutError"
                /\ pc = "Failed"
                /\ steps = <<"dial">>
                /\ conn = 0
                /\ error.host = dialed_host
                /\ error.timeout = timeout)
    /\ [][DialFails =>
            (sock' = sock /\ auto_open' = auto_open /\ opened' = opened)]_vars

\* the second connect() of a tunneled Connection times out
C11_Witness ==
    /\ attempts = 2
    /\ error.type = "ConnectTimeoutError"
    /\ error.host = "h2"
    /\ error.timeout = "5"
    /\ sock = Tls(1)
    /\ auto_open = 0
    /\ pc = "Failed"

\* C12 as stated: a connect() of the plain or of the unverified variant
\* never negotiates a tunnel, whatever the configuration.
C12_NoTunnelOutsideVerified == variant # "verified" => ~Ran("tunnel")

\* C12, amended: the plain and the unverified variant negotiate a tunnel
\* exactly when a tunnel target is configured, right after the socket
\* options.  Without one the plain connect() that ends Ready did dial and
\* options only and the unverified one dial, options and wrap; with one
\* the tunnel step comes third in both.
C12_TunnelIffTarget ==
    variant # "verified" =>
        /\ Ran("tunnel") => (Truthy(tunnel_host) /\ steps[3] = "tunnel")
        /\ (Len(steps) >= 3 /\ Truthy(tunnel_host)) => steps[3] = "tunnel"
        /\ pc = "Ready" =>
              steps = <<"dial", "options">>
                      \o (IF Truthy(tunnel_host) THEN <<"tunnel">> ELSE <<>>)
                      \o (IF variant = "plain" THEN <<>> ELSE <<"wrap">>)
        /\ (pc = "Ready" /\ variant = "plain") => sock = Raw(conn)
        /\ (pc = "Ready" /\ variant = "unverified") => sock = Tls(conn)

\* a plain connect() through a tunnel
C12_Witness ==
    /\ variant = "plain"
    /\ tunnel_host = "h2"
    /\ pc = "Ready"
    /\ steps = <<"dial", "options", "tunnel">>
    /\ tunnel_sock = Raw(conn)
    /\ auto_open = 0

\* the steps of a connect() after its dial
AttemptStep ==
    \/ SetOptionsOn
    \/ PrepareConn
    \/ UnverifiedWrap
    \/ VerifiedTunnel
    \/ VerifiedWrap
    \/ VerifiedCheck

\* connect() is one sequential call on the caller's thread and each of its
\* blocking calls returns or raises: a connect() that has started goes on.
FairSpec == Spec /\ WF_vars(AttemptStep)

Rank(step) ==
    CASE step = "dial" -> 1
      [] step = "options" -> 2
      [] step = "tunnel" -> 3
      [] step = "wrap" -> 4
      [] step = "check" -> 5

\* nothing is added to a connect(): a new one starts, or set_cert drops
\* the record
NoLaterStep ==
    \/ UNCHANGED <<pc, steps, error>>
    \/ steps' = <<"dial">>
    \/ steps' = <<>> /\ pc' = "Idle"

\* C13: in each variant the steps of a connect() are taken in the order
\* dial, options, tunnel, wrap, check, none twice; after a connect() has
\* ended, Ready or Failed, no step is added to it (a failed step is the
\* last one, an error is recorded exactly when it ended Failed); and every
\* connect() that has started ends Ready or Failed.
C13_Linear ==
    /\ [](/\ \A i, j \in 1..Len(steps) :
                i < j => Rank(steps[i]) < Rank(steps[j])
          /\ pc = "Failed" => error # NoError
          /\ pc \notin {"Failed", "Idle"} => error = NoError)
    /\ [][(pc \in {"Ready", "Failed"}) => NoLaterStep]_vars
    /\ [](pc \notin Rest => <>(pc \in {"Ready", "Failed"}))

\* a verified connect() that went through all five steps and failed in
\* the last
C13_Witness ==
    /\ variant = "verified"
    /\ steps = <<"dial", "options", "tunnel", "wrap", "check">>
    /\ pc = "Failed"
    /\ error.type = "HostnameMismatchError"

\* ------------------------------------------- two Connections side by side
\* Two Connection objects, each making one connect(), their steps
\* interleaved.  What they could share is the list object
\* default_socket_options, which self.socket_options refers to when the
\* keyword was not given, and the sockets the system hands out.  The TLS
\* wrap and the verification after it are one step here, its outcome an
\* input.
Pair == {1, 2}
PairKwSocketOptions ==
    {[kind |-> "absent", list |-> <<>>], [kind |-> "none", list |-> <<>>],
     [kind |-> "list", list |-> <<SO_KEEPALIVE_1>>]}

\* HTTPConnection.__init__, line 96: self.socket_options is the list given,
\* None, or the very list object of the class
P_InitSocketOptions(kw) ==
    [isNone |-> kw.kind = "none", shared |-> kw.kind = "absent", list |-> kw.list]

\* a new Connection object
P_New(v, th, kw) ==
    [variant |-> v, tunnel_host |-> th, kw_socket_options |-> kw,
     socket_options |-> P_InitSocketOptions(kw), auto_open |-> 1,
     sock |-> NoSock, pc |-> "Idle", conn |-> 0, applied |-> <<>>,
     steps |-> <<>>]

PairInit ==
    /\ variant = "plain"
    /\ host = ConnectionHost
    /\ timeout = "None"
    /\ tunnel_host = "None"
    /\ kw_socket_options = [kind |-> "absent", list |-> <<>>]
    /\ socket_options = InitSocketOptions(kw_socket_options)
    /\ cert_reqs = "None"
    /\ assert_hostname = "Undefined"
    /\ assert_fingerprint = "Undefined"
    /\ auto_open = 1
    /\ sock = NoSock
    /\ pc = "Idle"
    /\ attempts = 0
    /\ opened = {}
    /\ applied = <<>>
    /\ conn = 0
    /\ hostname = "Undefined"
    /\ resolved_cert_reqs = "Undefined"
    /\ steps = <<>>
    /\ dialed_host = ""
    /\ tunnel_sock = NoSock
    /\ server_hostname = "Undefined"
    /\ peer = NoCert
    /\ checks = <<>>
    /\ error = NoError
    /\ conns \in [Pair -> {P_New(v, th, kw) : v \in Variants,
                                             th \in {"None", "h2"},
                                             kw \in PairKwSocketOptions}]
    /\ class_default = default_socket_options

soloVars == <<cfgVars, certVars, objVars, locVars, histVars, pc, attempts,
              opened, applied, error>>

\* the sockets create_connection has returned so far
P_Opened == {conns[c].conn : c \in Pair} \ {0}

\* _new_conn, lines 106-117
P_NewConn(c) ==
    /\ conns[c].pc = "Idle"
    /\ \E ok \in BOOLEAN :
        conns' = [conns EXCEPT
                    ![c].steps = <<"dial">>,
                    ![c].conn = IF ok THEN Cardinality(P_Opened) + 1 ELSE 0,
                    ![c].pc = IF ok THEN "in_new_conn" ELSE "Failed"]
    /\ UNCHANGED <<class_default, soloVars>>

\* the list _set_options_on iterates over, line 140
P_SocketOptions(c) ==
    IF conns[c].socket_options.shared
    THEN [isNone |-> FALSE, list |-> class_default]
    ELSE [isNone |-> conns[c].socket_options.isNone,
          list |-> conns[c].socket_options.list]

\* a loop that takes the triples off the list it goes through
ListAfterLoop_Popped(l) == <<>>

\* _set_options_on, lines 140-141: the list after the for loop, which only
\* reads it
ListAfterLoop(l) == l

\* _new_conn, lines 119-122, with _set_options_on, lines 135-141
P_SetOptionsOn(c) ==
    /\ conns[c].pc = "in_new_conn"
    /\ LET opts == P_SocketOptions(c)
       IN  /\ \E failAt \in 0..(IF opts.isNone THEN 0 ELSE Len(opts.list)) :
                conns' = [conns EXCEPT
                            ![c].applied = OptionsSet(opts, failAt),
                            ![c].steps = Append(@, "options"),
                            ![c].pc = IF failAt = 0 THEN "after_new_conn"
                                      ELSE "Failed"]
           /\ class_default' = IF conns[c].socket_options.shared
                               THEN ListAfterLoop(class_default)
                               ELSE class_default
    /\ UNCHANGED soloVars

\* _prepare_conn, lines 124-133, and lines 197-210 of the verified
\* connect(), which assigns self.sock only when it tunnels
P_PrepareConn(c) ==
    /\ conns[c].pc = "after_new_conn"
    /\ LET me == conns[c]
           next == IF me.variant = "plain" THEN "Ready" ELSE "before_wrap"
       IN  IF Truthy(me.tunnel_host)
           THEN \E ok \in BOOLEAN :
                  conns' = [conns EXCEPT
                              ![c].sock = Raw(me.conn),
                              ![c].steps = Append(@, "tunnel"),
                              ![c].auto_open = IF ok THEN 0 ELSE @,
                              ![c].pc = IF ok THEN next ELSE "Failed"]
           ELSE conns' = [conns EXCEPT
                            ![c].sock = IF me.variant = "verified" THEN @
                                        ELSE Raw(me.conn),
                            ![c].pc = next]
    /\ UNCHANGED <<class_default, soloVars>>

\* line 167, and lines 214-226: the wrap raises, or returns and (verified
\* variant) the verification raises, or all passes
P_Wrap(c) ==
    /\ conns[c].pc = "before_wrap"
    /\ \E r \in {"ok", "handshake fails", "verification fails"} :
        /\ r = "verification fails" => conns[c].variant = "verified"
        /\ conns' = [conns EXCEPT
                       ![c].sock = IF r = "handshake fails" THEN @
                                   ELSE Tls(conns[c].conn),
                       ![c].steps = Append(@, "wrap"),
                       ![c].pc = IF r = "ok" THEN "Ready" ELSE "Failed"]
    /\ UNCHANGED <<class_default, soloVars>>

PairNext ==
    \E c \in Pair :
        \/ P_NewConn(c)
        \/ P_SetOptionsOn(c)
        \/ P_PrepareConn(c)
        \/ P_Wrap(c)

PairSpec == PairInit /\ [][PairNext]_vars

P_Expected(kw) ==
    IF kw.kind = "none" THEN <<>>
    ELSE IF kw.kind = "absent" THEN <<TCP_NODELAY_1>>
    ELSE kw.list
P_Last(c) == conns[c].steps[Len(conns[c].steps)]
P_FailedIn(c, step) ==
    conns[c].pc = "Failed" /\ conns[c].steps # <<>> /\ P_Last(c) = step
P_Ran(c, step) ==
    \E i \in 1..Len(conns[c].steps) : conns[c].steps[i] = step

\* C14: with the steps of two connect() calls on two Connections
\* interleaved in any way, what each Connection ends up with follows from
\* its own configuration and the outcomes of its own steps: the options set
\* on its socket are those its own socket_options keyword asks for (the
\* default TCP_NODELAY = 1 for both when neither gave the keyword), its
\* auto_open is 0 exactly if its own tunnel succeeded, the socket it holds
\* is the one it dialed and not the other's, it ends Ready exactly if none
\* of its own steps failed; a step of one leaves the other as it was, and
\* the default list of the class stays what it is.
C14_Independent ==
    /\ [](/\ class_default = <<TCP_NODELAY_1>>
          /\ \A c \in Pair :
                LET me == conns[c]
                IN  /\ (me.conn # 0 /\ me.pc # "in_new_conn"
                        /\ ~P_FailedIn(c, "options")) =>
                            me.applied = P_Expected(me.kw_socket_options)
                    /\ me.auto_open = 0 <=>
                            (P_Ran(c, "tunnel") /\ ~P_FailedIn(c, "tunnel"))
                    /\ P_Ran(c, "tunnel") <=>
                            (Truthy(me.tunnel_host) /\ Len(me.steps) >= 3)
                    /\ me.sock # NoSock => me.sock.id = me.conn
                    /\ me.pc = "Ready" =>
                            me.sock = IF me.variant = "plain"
                                      THEN Raw(me.conn) ELSE Tls(me.conn)
          /\ \A c, d \in Pair :
                (c # d /\ conns[c].conn # 0) => conns[c].conn # conns[d].conn)
    /\ [][\A c, d \in Pair :
            (c # d /\ conns'[c] # conns[c]) => conns'[d] = conns[d]]_vars

\* both Connections were created without socket_options and are in the
\* middle of their connect(): the second has tunneled, the first not
C14_Witness ==
    /\ conns # <<>>
    /\ conns[1].kw_socket_options.kind = "absent"
    /\ conns[2].kw_socket_options.kind = "absent"
    /\ conns[1].pc = "after_new_conn"
    /\ conns[2].pc = "before_wrap"
    /\ conns[1].applied = <<TCP_NODELAY_1>>
    /\ conns[2].applied = <<TCP_NODELAY_1>>
    /\ conns[1].conn = 2
    /\ conns[2].conn = 1
    /\ conns[1].auto_open = 1
    /\ conns[2].auto_open = 0

\* C15: the Connection goes with one socket: no step, in particular of a
\* connect() called while self.sock is set, makes self.sock refer to
\* another socket and leaves the one it referred to open.
C15_OneSocket ==
    [][(sock.id # 0 /\ sock'.id # sock.id) => sock.id \notin opened']_vars

\* the failures the error taxonomy names
TypedErrors ==
    {"ConnectTimeoutError", "socket.error", "TunnelError", "SSLError",
     "FingerprintMismatchError", "HostnameMismatchError"}

\* C16: in the verified variant with resolved mode other than none, the
\* attributes the verification reads are defined when it is reached, also
\* when set_cert was never called, and a connect() ends Ready or with one
\* of the failures of the taxonomy.
C16_SettingsDefined ==
    (variant = "verified" /\ resolved_cert_reqs \notin {CERT_NONE, "Undefined"}) =>
        /\ pc = "after_wrap" =>
              (assert_fingerprint # "Undefined" /\ assert_hostname # "Undefined")
        /\ pc = "Failed" => error.type \in TypedErrors

\* C17: in the verified variant the name of a hostname match is the
\* assert_hostname override when that is a non-empty name, else the tunnel
\* target's host when tunneled, else the host of the Connection; the
\* server_hostname of the wrap is the tunnel target's host when tunneled
\* and the host of the Connection otherwise, whatever the override.
C17_OverrideOnlyInMatch ==
    variant = "verified" =>
        /\ \A i \in 1..Len(checks) :
              checks[i][1] = "hostname" =>
                  checks[i][2] = IF assert_hostname \notin {"None", ""}
                                 THEN assert_hostname
                                 ELSE EffectiveHostname
        /\ Ran("wrap") => server_hostname = EffectiveHostname

\* an override that is neither the host nor what the wrap was given
C17_Witness ==
    /\ variant = "verified"
    /\ assert_hostname = "h2"
    /\ tunnel_host = "None"
    /\ dialed_host = "h1"
    /\ server_hostname = "h1"
    /\ checks = <<<<"hostname", "h2">>>>
    /\ pc = "Ready"
====
